---- MODULE Spec2Model ----
(***************************************************************************)
(* Model of package fallback (daishisystems/fallback): a Chain of          *)
(* Responsibility of fallback HTTP requests.  A Connection holds a Host,   *)
(* two decode targets and a reference to its Fallback; ExecuteHTTPRequest  *)
(* builds the request, sends it, classifies the status code and either     *)
(* decodes the response, returns a terminal failure, or calls              *)
(* ExecuteHTTPRequest on the Fallback with the arguments it was given.     *)
(*                                                                         *)
(* The recursion is modelled as an explicit call stack.  The transport     *)
(* (http.Client.Do) and the response it yields are the environment: each   *)
(* Send step draws either a transport error or a status code with a        *)
(* payload that json.Decoder.Decode can or cannot parse.                   *)
(***************************************************************************)
EXTENDS Integers, Sequences, FiniteSets, TLC

\* ------------------------------------------------------------------ bounds
\* Longest chain of Connections explored.
MaxChain == 3
\* Number of top-level ExecuteHTTPRequest calls made by the caller.
MaxCalls == 2
\* Deepest recursion explored: the goroutine stack a cyclic chain may fill.
MaxDepth == 4

\* ------------------------------------------------------------ value spaces
Nodes == 1..MaxChain
\* The nil Connecter.
NoNode == 0
\* Host values: one that url.Parse accepts, one that it rejects.
GoodHost == "http://demo.mockable.io"
BadHost == "http://%zz"
Hosts == {GoodHost, BadHost}

GoodPath == "get-basic"
OtherPath == "post-basic"
BadPath == "%zz"

\* Arguments a caller passes to ExecuteHTTPRequest(method, path, body, headers).
Args ==
    { [method |-> "GET", path |-> GoodPath, body |-> "nil", headers |-> "nil"],
      [method |-> "POST", path |-> OtherPath, body |-> "{}", headers |-> "json"],
      [method |-> "BAD METHOD", path |-> GoodPath, body |-> "nil", headers |-> "json"],
      [method |-> "GET", path |-> BadPath, body |-> "nil", headers |-> "nil"] }

\* Status codes the transport may answer with: the edges of the classification
\* ranges, 404 (tested apart by the code) and an ordinary server failure.
Statuses == {199, 200, 299, 300, 404, 500}

\* Decode targets: the structs that Output and CustomError point to.
Targets == ({"Output", "CustomError"}) \X Nodes
\* Content of a target: 0 is the zero value, n the payload served to node n,
\* -n what Decode leaves behind when that payload fails part of the way.
Zero == 0
Full(n) == n
Partial(n) == 0 - n

\* A response body: "ok" parses into the target; "syntax" is rejected before
\* anything is stored (an empty or malformed body); "type" is well-formed JSON
\* that does not fit the target, which Decode reports after storing what fits.
Payloads == {"ok", "syntax", "type"}

\* error values; node records where the error was created.
NoError == [kind |-> "nil", node |-> 0]
ConstructError(n) == [kind |-> "construct", node |-> n]
TransportError(n) == [kind |-> "transport", node |-> n]
ParseError(n) == [kind |-> "parse", node |-> n]

NoReq == [method |-> "none", host |-> "none", path |-> "none",
          body |-> "none", headers |-> "none"]
NoResp == [status |-> 0, payload |-> "none", node |-> 0]
\* "no value returned yet"
NoRet == [status |-> 0, err |-> NoError]
Pair(statusCode, err) == [status |-> statusCode, err |-> err]

VARIABLES
    conn,      \* the chain: node -> Connection{Name, Host, Output, CustomError, Fallback}
    mem,       \* contents of the decode targets
    stack,     \* call stack of ExecuteHTTPRequest frames, top last
    resp,      \* response held by the running frame
    retval,    \* pair returned by the frame that returned last
    calls,     \* top-level calls made so far
    log,       \* this call's attempts: node, request built, outcome, returned pair
    writes,    \* this call's decodes that wrote a target
    sends,     \* this call's http.Client.Do invocations
    builder,   \* the ConnectionBuilder the caller holds, with its Connection
    steps,     \* builder methods run by the last CreateConnection, in order
    prev,      \* the running call's arguments, and what the call before it did
    thr,       \* goroutines executing a Connection concurrently
    events     \* this call's log events, in the order emitted

vars == <<conn, mem, stack, resp, retval, calls, log, writes, sends,
          builder, steps, prev, thr, events>>

\* What the chain executor leaves alone.
aside == <<builder, steps, prev, thr>>

\* Variant of HeadNode: a call starts at the Connection that the call before
\* it ended on.
HeadNodeResumed == IF log # <<>> THEN log[Len(log)].node ELSE 1

\* The first Connection of the chain, on which the caller calls.
HeadNode == 1

\* No call before this one; no goroutine started.
NoPrev == [args |-> "none", log |-> <<>>, retval |-> NoRet, resp |-> NoResp]
NoThread == [pc |-> "idle", node |-> NoNode, args |-> "none",
             resp |-> NoResp, ret |-> NoRet]
Threads == {1, 2}
NoThreads == [t \in Threads |-> NoThread]

\* ------------------------------------------------------------ pure helpers
\* http.NewRequest accepts the method.
ValidMethod(method) == method \in {"GET", "POST"}

\* url.Parse accepts connection.Host + "/" + path.
ParseableURL(host, path) == host # BadHost /\ path # BadPath

\* CreateHTTPRequest returns a non-nil error.
CreateFails(c, a) == ~ValidMethod(a.method) \/ ~ParseableURL(c.Host, a.path)

\* The request CreateHTTPRequest builds when it succeeds.
CreateHTTPRequest(c, a) ==
    [method |-> a.method, host |-> c.Host, path |-> a.path,
     body |-> a.body, headers |-> a.headers]

\* Variant of IsNotFound: 404 is a status like any other outside the range.
IsNotFoundNever(statusCode) == FALSE

\* resp.StatusCode == 404
IsNotFound(statusCode) == statusCode = 404

\* Variant of IsSuccess: the ends of the range are left out.
IsSuccessExclusive(statusCode) == ~(statusCode <= 200 \/ statusCode >= 299)

\* resp.StatusCode < 200 || resp.StatusCode > 299 is false.
IsSuccess(statusCode) == ~(statusCode < 200 \/ statusCode > 299)

\* The arguments a frame passes to connection.Fallback.ExecuteHTTPRequest.
FallbackArgs(a) == a

\* Variants of FallbackReturn: the error of a fallback that ended in the
\* success range is dropped; the fallback's status is replaced by the caller's.
FallbackReturnClipped(statusCode, err) ==
    IF statusCode < 200 \/ statusCode > 299
    THEN Pair(statusCode, err)
    ELSE Pair(statusCode, NoError)
FallbackReturnMasked(statusCode, err) ==
    IF err = NoError THEN Pair(statusCode, err) ELSE Pair(503, err)

\* What a frame returns after its fallback returned (statusCode, err).
FallbackReturn(statusCode, err) == Pair(statusCode, err)

\* Variants of the terminal returns: the construction error is dropped; the
\* transport failure is reported with the status of the branch above it.
CreateFailedReturnNoError(err) == Pair(400, NoError)
SendFailedReturnBadRequest(err) == Pair(400, err)

\* Terminal returns of a Connection without Fallback.
CreateFailedReturn(err) == Pair(400, err)
SendFailedReturn(err) == Pair(503, err)
NotFoundReturn == Pair(404, NoError)

\* Variants of the decode step: nothing is stored; the error is swallowed;
\* the status returned with the decode result is a fixed 200.
DecodeStoresNothing(r) == FALSE
DecodeErrorSwallowed(r) == NoError
DecodeReturnFixedStatus(r) ==
    Pair(200, IF r.payload = "ok" THEN NoError ELSE ParseError(r.node))

\* err := dec.Decode(target): whether it stores into the target, what it
\* stores, and the err != nil branch that replaces the error.
DecodeStores(r) == r.payload \in {"ok", "type"}
Decoded(r) == IF r.payload = "ok" THEN Full(r.node) ELSE Partial(r.node)
DecodeError(r) == IF r.payload = "ok" THEN NoError ELSE ParseError(r.node)
DecodeReturn(r) == Pair(r.status, DecodeError(r))

\* Variant of DecodeTarget: every Connection decodes into one pooled struct.
DecodeTargetPooled(c, r) ==
    IF IsSuccess(r.status) THEN <<"Output", 1>> ELSE <<"CustomError", 1>>

\* Variant of DecodeTarget: the two targets are swapped.
DecodeTargetSwapped(c, r) ==
    IF r.status \in 200..299 THEN c.CustomError ELSE c.Output

\* The target a terminal response is decoded into.
DecodeTarget(c, r) == IF IsSuccess(r.status) THEN c.Output ELSE c.CustomError

\* Variant of Delegates: a body that fails to decode is treated as a failure.
DelegatesOnDecodeFailure(c, r) ==
    c.Fallback # NoNode /\ (r.status \notin 200..299 \/ r.payload # "ok")

\* The branches of the status switch that call the Fallback.
Delegates(c, r) == ~IsSuccess(r.status) /\ c.Fallback # NoNode

\* ----------------------------------------------------------------- builder
\* A map[string]string: nil, or a set of <<key, value>> pairs with unique keys.
NilHeaders == [isNil |-> TRUE, kv |-> {}]
Headers(kv) == [isNil |-> FALSE, kv |-> kv]
\* map[string]string{"Content-Type": "application/json"}
DefaultHeaders == Headers({<<"Content-Type", "application/json">>})
\* Headers a caller hands to NewConnectionBuilder.
HeaderInputs ==
    { NilHeaders,
      Headers({}),
      Headers({<<"Content-Type", "text/xml">>}),
      Headers({<<"Accept", "text/plain">>}) }

\* Body values a caller hands over: none, a struct json.Marshal encodes, and a
\* value it rejects (a channel or a func).
NilBody == "nil"
BodyInputs == {NilBody, "PostBody", "chan"}
\* json.Marshal(body): the bytes and the error.
NilBytes == <<>>
MarshalFails(body) == body = "chan"
Marshal(body) == <<"json", body>>
MarshalError(body) == [kind |-> "marshal", node |-> 0]

NilTarget == <<"nil", 0>>

\* The zero Connection of the builder's file, and a builder without one.
NilConnection ==
    [Name |-> "", Method |-> "", Path |-> "", Body |-> NilBytes,
     Headers |-> NilHeaders, Output |-> NilTarget, CustomError |-> NilTarget,
     Fallback |-> NoNode, isNil |-> TRUE]
NoBuilder ==
    [name |-> "", method |-> "", path |-> "", returnsJSON |-> FALSE,
     body |-> NilBody, headers |-> NilHeaders, output |-> NilTarget,
     customError |-> NilTarget, fallback |-> NoNode,
     Connection |-> NilConnection, isNil |-> TRUE]

\* builder.createConnection()
createConnection(b) ==
    [NilConnection EXCEPT
        !.isNil = FALSE,
        !.Name = b.name,
        !.Method = b.method,
        !.Path = b.path,
        !.Headers = IF b.returnsJSON THEN DefaultHeaders ELSE NilHeaders]

\* builder.addHTTPPOSTBody(): the Connection, and the error it returns.
addHTTPPOSTBody(c, b) ==
    IF MarshalFails(b.body) THEN c ELSE [c EXCEPT !.Body = Marshal(b.body)]
addHTTPPOSTBodyError(b) ==
    IF MarshalFails(b.body) THEN MarshalError(b.body) ELSE NoError

\* Variant of addHTTPHeaders: the builder's headers are added key by key to
\* headers the Connection already has.
addHTTPHeadersMerged(c, b) ==
    IF ~c.Headers.isNil
    THEN [c EXCEPT !.Headers =
            Headers({h \in c.Headers.kv :
                        \A g \in b.headers.kv : g[1] # h[1]} \cup b.headers.kv)]
    ELSE [c EXCEPT !.Headers = b.headers]

\* builder.addHTTPHeaders()
addHTTPHeaders(c, b) == [c EXCEPT !.Headers = b.headers]

\* builder.addPayloads()
addPayloads(c, b) ==
    [c EXCEPT !.Output = b.output, !.CustomError = b.customError]

\* builder.addFallback()
addFallback(c, b) == [c EXCEPT !.Fallback = b.fallback]

\* Variant of BuildSteps: the body and fallback methods are called whether or
\* not the builder was given a body and a fallback.
BuildStepsUnguarded(b) ==
    <<"createConnection", "addHTTPPOSTBody", "addHTTPHeaders", "addPayloads",
      "addFallback">>

\* The builder methods ConnectionManager.CreateConnection calls, in order.
BuildSteps(b) ==
    <<"createConnection">>
    \o (IF b.body # NilBody THEN <<"addHTTPPOSTBody">> ELSE <<>>)
    \o <<"addHTTPHeaders", "addPayloads">>
    \o (IF b.fallback # NoNode THEN <<"addFallback">> ELSE <<>>)

\* The effect of one builder method on the Connection under construction.
ApplyStep(step, c, b) ==
    CASE step = "createConnection" -> createConnection(b)
      [] step = "addHTTPPOSTBody" -> addHTTPPOSTBody(c, b)
      [] step = "addHTTPHeaders" -> addHTTPHeaders(c, b)
      [] step = "addPayloads" -> addPayloads(c, b)
      [] step = "addFallback" -> addFallback(c, b)

RECURSIVE RunSteps(_, _, _)
RunSteps(ss, c, b) ==
    IF ss = <<>> THEN c ELSE RunSteps(Tail(ss), ApplyStep(ss[1], c, b), b)

\* ------------------------------------------------------------------- state
Top == stack[Len(stack)]
Idle == stack = <<>>
Done == Idle /\ calls > 0

Frame(n, a) == [node |-> n, pc |-> "create", args |-> a]

\* Chains of every length up to MaxChain; targets shared by all nodes, as the
\* package's tests build them, or one pair per node.
Chain(len, hosts, shared) ==
    [n \in Nodes |->
        [Name |-> n,
         Host |-> hosts[n],
         Output |-> <<"Output", IF shared THEN 1 ELSE n>>,
         CustomError |-> <<"CustomError", IF shared THEN 1 ELSE n>>,
         Fallback |-> IF n < len THEN n + 1 ELSE NoNode,
         Logger |-> FALSE]]

Init ==
    /\ \E len \in Nodes, shared \in BOOLEAN :
         \E hosts \in [Nodes -> Hosts] :
            /\ \A n \in Nodes : n > len => hosts[n] = GoodHost
            /\ conn = Chain(len, hosts, shared)
    /\ mem = [t \in Targets |-> Zero]
    /\ stack = <<>>
    /\ resp = NoResp
    /\ retval = NoRet
    /\ calls = 0
    /\ log = <<>>
    /\ writes = <<>>
    /\ sends = 0
    /\ builder = NoBuilder
    /\ steps = <<>>
    /\ prev = NoPrev
    /\ thr = NoThreads
    /\ events = <<>>

\* ----------------------------------------------------------------- actions
\* The caller invokes ExecuteHTTPRequest on the head of the chain.
Enter(a) ==
    /\ Idle
    /\ calls < MaxCalls
    /\ calls' = calls + 1
    /\ stack' = <<Frame(HeadNode, a)>>
    /\ resp' = NoResp
    /\ retval' = NoRet
    /\ log' = <<>>
    /\ writes' = <<>>
    /\ sends' = 0
    /\ events' = <<>>
    /\ UNCHANGED <<conn, mem>>

Call(a) ==
    /\ Enter(a)
    /\ UNCHANGED aside

\* The same, the caller keeping what the call before did; it repeats that
\* call's arguments once.
CallRecorded(a) ==
    /\ Enter(a)
    /\ calls > 0 => (a = prev.args /\ prev.log = <<>>)
    /\ prev' = [args |-> a, log |-> log, retval |-> retval, resp |-> resp]
    /\ UNCHANGED <<builder, steps, thr>>

\* What the log keeps of a status code: the range it lies in.
StatusClass(statusCode) ==
    IF statusCode \in 200..299 THEN "2xx"
    ELSE IF statusCode = 404 THEN "404" ELSE "non2xx"

\* The log entry opened when a frame starts on its node.
Attempt(n, req) ==
    [node |-> n, req |-> req, sent |-> FALSE, outcome |-> "pending",
     payload |-> "none", ret |-> NoRet]

SetOutcome(l, i, o) == [l EXCEPT ![i].outcome = o]
SetRet(l, i, r) == [l EXCEPT ![i].ret = r]

\* The log entry of a classified response.  The body of a response that is
\* about to be discarded in favour of the Fallback is not kept.
Classified(l, i, c, r) ==
    [l EXCEPT ![i].outcome = StatusClass(r.status),
              ![i].payload = IF r.status \in 200..299 \/ c.Fallback = NoNode
                             THEN r.payload ELSE "none"]

\* Variants of Callee: the method is called on the Connection itself; the
\* Fallback is passed over when it has a Fallback of its own.
CalleeSelf(c) == c.Name
CalleeNextButOne(c) ==
    IF conn[c.Fallback].Fallback # NoNode
    THEN conn[c.Fallback].Fallback
    ELSE c.Fallback

\* The Connecter a failed Connection calls ExecuteHTTPRequest on.
Callee(c) == c.Fallback

\* return connection.Fallback.ExecuteHTTPRequest(method, path, body, headers):
\* the running frame waits and a frame for the Fallback starts, while the
\* goroutine stack has room for it.
CallFallback(l) ==
    LET f == Top
        d == Len(stack)
    IN  /\ d < MaxDepth
        /\ stack' = Append([stack EXCEPT ![d].pc = "await"],
                           Frame(Callee(conn[f.node]), FallbackArgs(f.args)))
        /\ log' = l
        /\ retval' = NoRet
        /\ resp' = NoResp

\* return r: the running frame ends.
ReturnPair(l, r) ==
    LET d == Len(stack)
    IN  /\ stack' = SubSeq(stack, 1, d - 1)
        /\ log' = SetRet(l, d, r)
        /\ retval' = r
        /\ UNCHANGED resp

\* Variant of FallbackOrReturn with a cycle guard: a Fallback that this call
\* already attempted is not called again.
FallbackOrReturnOnce(l, terminal) ==
    IF /\ conn[Top.node].Fallback # NoNode
       /\ \A i \in 1..Len(l) : l[i].node # conn[Top.node].Fallback
    THEN CallFallback(l)
    ELSE ReturnPair(l, terminal)

\* if connection.Fallback != nil { return connection.Fallback.Execute... }
\* return terminal
FallbackOrReturn(l, terminal) ==
    IF conn[Top.node].Fallback # NoNode
    THEN CallFallback(l)
    ELSE ReturnPair(l, terminal)

\* Variant of Logged: the failure is not reported.
LoggedNothing(evs, c) == evs

\* if logger present, emit a failure event naming the node.
Logged(evs, c) == IF c.Logger THEN Append(evs, c.Name) ELSE evs

\* Variant of Receiver: a Connection that used its Fallback drops it.
ReceiverFallbackDropped(c) == [c EXCEPT !.Fallback = NoNode]

\* The fields of a Connection after a step of its ExecuteHTTPRequest: the
\* method has a value receiver and assigns to no field.
Receiver(c) == c

\* The chain after a step of the running frame.
Executed == conn' = [conn EXCEPT ![Top.node] = Receiver(conn[Top.node])]

\* request, err := connection.CreateHTTPRequest(method, path, body, headers)
Create ==
    /\ ~Idle
    /\ Top.pc = "create"
    /\ LET f == Top
           c == conn[f.node]
           d == Len(stack)
       IN  IF CreateFails(c, f.args)
           THEN FallbackOrReturn(
                    SetOutcome(Append(log, Attempt(f.node, NoReq)), d, "construct"),
                    CreateFailedReturn(ConstructError(f.node)))
           ELSE /\ stack' = [stack EXCEPT ![d].pc = "send"]
                /\ log' = Append(log, Attempt(f.node, CreateHTTPRequest(c, f.args)))
                /\ UNCHANGED <<resp, retval>>
    /\ events' = IF CreateFails(conn[Top.node], Top.args)
                 THEN Logged(events, conn[Top.node]) ELSE events
    /\ Executed
    /\ UNCHANGED <<mem, calls, writes, sends>>
    /\ UNCHANGED aside

\* resp, err := client.Do(request)
Send ==
    /\ ~Idle
    /\ Top.pc = "send"
    /\ sends' = sends + 1
    /\ LET f == Top
           d == Len(stack)
           l == [log EXCEPT ![d].sent = TRUE]
       IN  \/ /\ FallbackOrReturn(SetOutcome(l, d, "transport"),
                                  SendFailedReturn(TransportError(f.node)))
              /\ events' = Logged(events, conn[f.node])
           \/ /\ \E s \in Statuses, p \in Payloads :
                    resp' = [status |-> s, payload |-> p, node |-> f.node]
              /\ UNCHANGED events
              /\ stack' = [stack EXCEPT ![d].pc = "classify"]
              /\ log' = l
              /\ UNCHANGED retval
    /\ Executed
    /\ UNCHANGED <<mem, calls, writes>>
    /\ UNCHANGED aside

\* dec.Decode(target): what it does to the target.
Store ==
    LET c == conn[Top.node]
        t == DecodeTarget(c, resp)
    IN  IF DecodeStores(resp)
        THEN /\ mem' = [mem EXCEPT ![t] = Decoded(resp)]
             /\ writes' = Append(writes, [node |-> Top.node, target |-> t,
                                          value |-> Decoded(resp)])
        ELSE UNCHANGED <<mem, writes>>

\* dec := json.NewDecoder(resp.Body); err := dec.Decode(target); return ...
DecodeAndReturn(l) ==
    /\ Store
    /\ ReturnPair(l, DecodeReturn(resp))

\* Variant of DecodesBeforeFallback: the error body is decoded into
\* CustomError before the Fallback is called.
DecodesBeforeFallbackAlways(c, r) == TRUE

\* Whether a branch that calls the Fallback decodes the response first: the
\* branches hold the call and nothing else.
DecodesBeforeFallback(c, r) == FALSE

\* the if / else if / else on resp.StatusCode
Classify ==
    /\ ~Idle
    /\ Top.pc = "classify"
    /\ LET c == conn[Top.node]
           l == Classified(log, Len(stack), c, resp)
       IN  IF Delegates(c, resp)
           THEN /\ CallFallback(l)
                /\ IF DecodesBeforeFallback(c, resp)
                   THEN Store
                   ELSE UNCHANGED <<mem, writes>>
           ELSE IF IsNotFound(resp.status)
           THEN ReturnPair(l, NotFoundReturn) /\ UNCHANGED <<mem, writes>>
           ELSE DecodeAndReturn(l)
    /\ events' = IF IsSuccess(resp.status)
                 THEN events ELSE Logged(events, conn[Top.node])
    /\ Executed
    /\ UNCHANGED <<calls, sends>>
    /\ UNCHANGED aside

\* statusCode, err := connection.Fallback.ExecuteHTTPRequest(...)
\* return statusCode, err
Return ==
    /\ ~Idle
    /\ Top.pc = "await"
    /\ ReturnPair(log, FallbackReturn(retval.status, retval.err))
    /\ UNCHANGED <<conn, mem, calls, writes, sends, events>>
    /\ UNCHANGED aside

\* NewConnectionBuilder(name, method, path, returnsJSON, body, headers, output,
\* customError, fallback)
NewConnectionBuilder(name, method, path, returnsJSON, body, headers, output, customError, fallback) ==
    /\ Idle
    /\ builder' =
         [NoBuilder EXCEPT
            !.isNil = FALSE, !.name = name, !.method = method, !.path = path,
            !.returnsJSON = returnsJSON, !.body = body, !.headers = headers,
            !.output = output, !.customError = customError,
            !.fallback = fallback]
    /\ steps' = <<>>
    /\ UNCHANGED <<conn, mem, stack, resp, retval, calls, log, writes, sends>>
    /\ UNCHANGED <<prev, thr, events>>

\* connectionManager.CreateConnection(builder): returns nothing.
CreateConnection ==
    /\ Idle
    /\ ~builder.isNil
    /\ steps' = BuildSteps(builder)
    /\ builder' = [builder EXCEPT
                     !.Connection = RunSteps(BuildSteps(builder),
                                             builder.Connection, builder)]
    /\ UNCHANGED <<conn, mem, stack, resp, retval, calls, log, writes, sends>>
    /\ UNCHANGED <<prev, thr, events>>

\* What CreateConnection hands back to its caller of the error that
\* addHTTPPOSTBody returned: the call statement drops it.
CreateConnectionResult(b) == NoError

\* The caller builds Connections: any builder, then the director.
NextBuilder ==
    \/ \E method \in {"GET", "POST"}, returnsJSON \in BOOLEAN,
          body \in BodyInputs, headers \in HeaderInputs,
          fallback \in {NoNode, HeadNode} :
            NewConnectionBuilder("CONN1", method, GoodPath, returnsJSON, body,
                                 headers, <<"Output", 1>>, <<"CustomError", 1>>,
                                 fallback)
    \/ CreateConnection

SpecBuilder == Init /\ [][NextBuilder]_vars

Next ==
    \/ \E a \in Args : Call(a)
    \/ Create
    \/ Send
    \/ Classify
    \/ Return

Spec == Init /\ [][Next]_vars

\* One top-level call, each step of which is eventually taken: the code runs
\* on, and every transport call returns.
NextOnce ==
    \/ \E a \in Args : calls = 0 /\ Call(a)
    \/ Create
    \/ Send
    \/ Classify
    \/ Return

Fairness ==
    /\ WF_vars(Create)
    /\ WF_vars(Send)
    /\ WF_vars(Classify)
    /\ WF_vars(Return)

SpecLive == Init /\ [][NextOnce]_vars /\ Fairness

\* Chains whose last Connection falls back to an earlier one (or to itself):
\* the Fallback field is exported and can be assigned after NewConnection.
CyclicChain(len, back, hosts) ==
    [Chain(len, hosts, TRUE) EXCEPT ![len].Fallback = back]

InitCycle ==
    /\ \E len \in Nodes :
         \E back \in 1..len, hosts \in [Nodes -> Hosts] :
            /\ \A n \in Nodes : n > len => hosts[n] = GoodHost
            /\ conn = CyclicChain(len, back, hosts)
    /\ mem = [t \in Targets |-> Zero]
    /\ stack = <<>>
    /\ resp = NoResp
    /\ retval = NoRet
    /\ calls = 0
    /\ log = <<>>
    /\ writes = <<>>
    /\ sends = 0
    /\ builder = NoBuilder
    /\ steps = <<>>
    /\ prev = NoPrev
    /\ thr = NoThreads
    /\ events = <<>>

SpecCycle == InitCycle /\ [][NextOnce]_vars

\* ------------------------------------------------------------- goroutines
\* Two goroutines, each executing a Connection that has no Fallback; the
\* Connections are one and the same, or two with targets of their own or in
\* common.  A target is a struct of two fields, which Decode stores one after
\* the other without holding a lock; the body served to goroutine t is t.
InitConc ==
    /\ \E shared \in BOOLEAN :
          conn = Chain(1, [n \in Nodes |-> GoodHost], shared)
    /\ mem = [t \in Targets |-> <<Zero, Zero>>]
    /\ stack = <<>>
    /\ resp = NoResp
    /\ retval = NoRet
    /\ calls = 0
    /\ log = <<>>
    /\ writes = <<>>
    /\ sends = 0
    /\ builder = NoBuilder
    /\ steps = <<>>
    /\ prev = NoPrev
    /\ thr = NoThreads
    /\ events = <<>>

TReturn(t, r) ==
    thr' = [thr EXCEPT ![t].pc = "done", ![t].args = "none",
                       ![t].resp = NoResp, ![t].ret = r]

\* go connection.ExecuteHTTPRequest(method, path, body, headers)
TCall(t, n, a) ==
    /\ thr[t].pc = "idle"
    /\ thr' = [thr EXCEPT ![t] = [pc |-> "create", node |-> n, args |-> a,
                                  resp |-> NoResp, ret |-> NoRet]]
    /\ UNCHANGED mem

TCreate(t) ==
    /\ thr[t].pc = "create"
    /\ IF CreateFails(conn[thr[t].node], thr[t].args)
       THEN TReturn(t, CreateFailedReturn(ConstructError(thr[t].node)))
       ELSE thr' = [thr EXCEPT ![t].pc = "send"]
    /\ UNCHANGED mem

TSend(t) ==
    /\ thr[t].pc = "send"
    /\ \/ TReturn(t, SendFailedReturn(TransportError(thr[t].node)))
       \/ \E s \in Statuses, p \in Payloads :
             thr' = [thr EXCEPT ![t].pc = "classify",
                                ![t].resp = [status |-> s, payload |-> p,
                                             node |-> t]]
    /\ UNCHANGED mem

\* The status switch of a Connection without Fallback, up to the first store
\* of Decode.
TClassify(t) ==
    LET r == thr[t].resp
        c == conn[thr[t].node]
    IN  /\ thr[t].pc = "classify"
        /\ IF ~IsSuccess(r.status) /\ IsNotFound(r.status)
           THEN TReturn(t, NotFoundReturn) /\ UNCHANGED mem
           ELSE IF DecodeStores(r)
           THEN /\ mem' = [mem EXCEPT ![DecodeTarget(c, r)][1] = Decoded(r)]
                /\ thr' = [thr EXCEPT ![t].pc = "decode"]
           ELSE TReturn(t, DecodeReturn(r)) /\ UNCHANGED mem

\* The second store of Decode, and the return.
TDecode(t) ==
    LET r == thr[t].resp
        c == conn[thr[t].node]
    IN  /\ thr[t].pc = "decode"
        /\ mem' = [mem EXCEPT ![DecodeTarget(c, r)][2] = Decoded(r)]
        /\ TReturn(t, DecodeReturn(r))

NextConc ==
    /\ \E t \in Threads :
          \/ \E n \in Threads, a \in Args : n <= t /\ TCall(t, n, a)
          \/ TCreate(t)
          \/ TSend(t)
          \/ TClassify(t)
          \/ TDecode(t)
    /\ UNCHANGED <<conn, stack, resp, retval, calls, log, writes, sends,
                   builder, steps, prev, events>>

SpecConc == InitConc /\ [][NextConc]_vars

\* Chains some of whose Connections have a logger.
InitLog ==
    /\ \E len \in Nodes :
         \E hosts \in [Nodes -> Hosts], loggers \in [Nodes -> BOOLEAN] :
            /\ \A n \in Nodes : n > len => (hosts[n] = GoodHost /\ ~loggers[n])
            /\ conn = [n \in Nodes |->
                          [Chain(len, hosts, TRUE)[n] EXCEPT !.Logger = loggers[n]]]
    /\ mem = [t \in Targets |-> Zero]
    /\ stack = <<>>
    /\ resp = NoResp
    /\ retval = NoRet
    /\ calls = 0
    /\ log = <<>>
    /\ writes = <<>>
    /\ sends = 0
    /\ builder = NoBuilder
    /\ steps = <<>>
    /\ prev = NoPrev
    /\ thr = NoThreads
    /\ events = <<>>

SpecLog == InitLog /\ [][NextOnce]_vars

\* The transport answers the d-th request of a repeated call as it answered
\* the d-th request of the call before; a request that call never made is
\* answered freely.
AnswersAsBefore(d) ==
    LET e == prev.log[d]
    IN  IF e.outcome = "transport"
        THEN log'[d].outcome = "transport"
        ELSE IF e.outcome \in {"2xx", "404", "non2xx"}
        THEN /\ log'[d].outcome = "pending"
             /\ StatusClass(resp'.status) = e.outcome
             /\ e.payload # "none" => resp'.payload = e.payload
             /\ d = Len(prev.log) => resp'.status = prev.resp.status
        ELSE TRUE

SendReplayed ==
    /\ Send
    /\ (prev.log # <<>> /\ Len(stack) <= Len(prev.log))
          => AnswersAsBefore(Len(stack))

\* A call, then the same call again on the same chain, the transport giving
\* the same answers.
NextRepeat ==
    \/ \E a \in Args : CallRecorded(a)
    \/ Create
    \/ SendReplayed
    \/ Classify
    \/ Return

SpecRepeat == Init /\ [][NextRepeat]_vars

\* ------------------------------------------------------------------ typing
TypeOK ==
    /\ calls \in 0..MaxCalls
    /\ Len(stack) <= MaxChain
    /\ Len(log) <= MaxChain
    /\ sends \in 0..MaxChain
    /\ \A t \in Targets : mem[t] \in (0 - MaxChain)..MaxChain
    /\ \A i \in 1..Len(stack) : stack[i].pc \in {"create", "send", "classify", "await"}
    /\ Len(writes) <= 1

\* -------------------------------------------------------------- vocabulary
\* The attempt a call made last, and what the log says of an attempt.
Last == log[Len(log)]
Terminal(e) == conn[e.node].Fallback = NoNode
Failed(e) == e.outcome \in {"construct", "transport", "404", "non2xx"}
Non2xx(e) == e.outcome \in {"404", "non2xx"}
Succeeded(e) == e.outcome = "2xx" /\ e.payload = "ok"
DecodeFailed(e) == e.outcome = "2xx" /\ e.payload \in {"syntax", "type"}
Returned(e) == e.ret # NoRet

\* Every Client.Do of the call is recorded on the attempt that made it.
SendsCounted == sends = Cardinality({i \in 1..Len(log) : log[i].sent})

\* ------------------------------------------------------------------ claims

\* C1: in a chain of length 1, 2 or 3, when node k succeeds (2xx status, body
\* decodes) and every node before it failed by construction error, transport
\* error or non-2xx status, the call on the head returns node k's 2xx status
\* with no error and node k's Output holds node k's decoded payload.
C1_FirstSuccessWins ==
    Done =>
        \A k \in 1..Len(log) :
            (Succeeded(log[k]) /\ \A i \in 1..(k - 1) : Failed(log[i])) =>
                /\ log[k].node = k
                /\ resp.node = k
                /\ resp.status \in 200..299
                /\ retval = Pair(resp.status, NoError)
                /\ mem[conn[k].Output] = Full(k)
                /\ writes = <<[node |-> k, target |-> conn[k].Output,
                               value |-> Full(k)]>>

\* C1 witness: a three-node chain whose third node succeeds after a transport
\* failure and a non-2xx status.
C1_Witness ==
    /\ Done
    /\ Len(log) = 3
    /\ log[1].outcome = "transport"
    /\ log[2].outcome = "non2xx"
    /\ Succeeded(log[3])
    /\ retval = Pair(299, NoError)

\* C2: a node that failed and has a fallback returns exactly the pair its
\* fallback returned: same status, same error.
C2_VerbatimPropagation ==
    \A i \in 1..(Len(log) - 1) :
        Returned(log[i]) => log[i].ret = log[i + 1].ret

\* C2 witness: a decode error under a 2xx status travels up two delegations.
C2_Witness ==
    /\ Done
    /\ Len(log) = 3
    /\ log[3].ret = Pair(299, ParseError(3))
    /\ log[1].ret = Pair(299, ParseError(3))

\* C3: a node whose request cannot be built and that has no fallback returns
\* 400 with a non-nil error, and makes no transport call.
C3_ConstructFailureTerminal ==
    \A k \in 1..Len(log) :
        (log[k].outcome = "construct" /\ Terminal(log[k])) =>
            /\ log[k].ret.status = 400
            /\ log[k].ret.err # NoError
            /\ log[k].ret.err = ConstructError(log[k].node)
            /\ ~log[k].sent
            /\ SendsCounted
            /\ (k = 1 => sends = 0)

\* C3 witness: a single node with an unparseable Host has returned.
C3_Witness ==
    /\ Done
    /\ Len(log) = 1
    /\ conn[1].Host = BadHost
    /\ Last.outcome = "construct"
    /\ retval.status = 400
    /\ sends = 0

\* C4: a node whose transport call fails and that has no fallback returns 503
\* with a non-nil error.
C4_TransportFailureTerminal ==
    \A k \in 1..Len(log) :
        (log[k].outcome = "transport" /\ Terminal(log[k])) =>
            /\ log[k].sent
            /\ log[k].ret.status = 503
            /\ log[k].ret.err # NoError
            /\ log[k].ret.err = TransportError(log[k].node)

\* C4 witness: the last node of a two-node chain could not be reached.
C4_Witness ==
    /\ Done
    /\ Len(log) = 2
    /\ Last.outcome = "transport"
    /\ retval = Pair(503, TransportError(2))

\* C5 as stated: for every status outside [200,299], 404 included, a node with
\* no fallback that receives it with a decodable body decodes the body into
\* CustomError and returns that status with no error.
C5_EveryNon2xxDecoded ==
    \A k \in 1..Len(log) :
        (Non2xx(log[k]) /\ Terminal(log[k]) /\ log[k].payload = "ok") =>
            /\ log[k].ret = Pair(resp.status, NoError)
            /\ writes = <<[node |-> log[k].node,
                           target |-> conn[log[k].node].CustomError,
                           value |-> Full(log[k].node)]>>

\* C5 amended: for every status outside [200,299] other than 404, a node with
\* no fallback that receives it with a decodable body decodes the body into
\* CustomError and returns that status with no error; on 404 it returns
\* (404, no error) and decodes nothing.
C5_Non2xxDecodedUnless404 ==
    \A k \in 1..Len(log) :
        (Non2xx(log[k]) /\ Terminal(log[k]) /\ log[k].payload = "ok") =>
            /\ resp.node = log[k].node
            /\ resp.status \notin 200..299
            /\ log[k].ret = Pair(resp.status, NoError)
            /\ IF resp.status = 404
               THEN writes = <<>>
               ELSE /\ writes = <<[node |-> log[k].node,
                                   target |-> conn[log[k].node].CustomError,
                                   value |-> Full(log[k].node)]>>
                    /\ mem[conn[log[k].node].CustomError] = Full(log[k].node)

\* C5 witness: a terminal node answered 500 with a decodable body.
C5_Witness ==
    /\ Done
    /\ Len(log) = 2
    /\ Last.outcome = "non2xx"
    /\ Last.payload = "ok"
    /\ retval = Pair(500, NoError)
    /\ mem[conn[2].CustomError] = Full(2)

\* C6 as stated: for every status outside [200,299], 404 included, a node with
\* no fallback that receives it with a body that cannot be decoded returns that
\* status with a non-nil decode error.
C6_EveryNon2xxDecodeError ==
    \A k \in 1..Len(log) :
        (Non2xx(log[k]) /\ Terminal(log[k]) /\ log[k].payload \in {"syntax", "type"}) =>
            /\ log[k].ret.status = resp.status
            /\ log[k].ret.err # NoError

\* C6 amended: for every status outside [200,299] other than 404, a node with
\* no fallback that receives it with a body that cannot be decoded returns that
\* status with a non-nil decode error; on 404 it returns (404, no error).
C6_Non2xxDecodeErrorUnless404 ==
    \A k \in 1..Len(log) :
        (Non2xx(log[k]) /\ Terminal(log[k]) /\ log[k].payload \in {"syntax", "type"}) =>
            /\ resp.node = log[k].node
            /\ resp.status \notin 200..299
            /\ log[k].ret.status = resp.status
            /\ IF resp.status = 404
               THEN log[k].ret.err = NoError
               ELSE log[k].ret.err = ParseError(log[k].node)

\* C6 witness: a terminal node answered 300 with a body that does not parse.
C6_Witness ==
    /\ Done
    /\ Len(log) = 1
    /\ Last.outcome = "non2xx"
    /\ Last.payload = "syntax"
    /\ retval = Pair(300, ParseError(1))

\* C7: a node that receives a 2xx status whose body fails to decode into Output
\* returns that same status with a non-nil error, never (status, no error).
C7_DecodeFailureReported ==
    \A k \in 1..Len(log) :
        DecodeFailed(log[k]) =>
            /\ resp.node = log[k].node
            /\ resp.status \in 200..299
            /\ log[k].ret.status = resp.status
            /\ log[k].ret.err # NoError

\* C7 witness: status 299 with a body of the wrong shape.
C7_Witness ==
    /\ Done
    /\ Last.outcome = "2xx"
    /\ Last.payload = "type"
    /\ Last.ret = Pair(299, ParseError(Last.node))

\* C8: a decode failure under a 2xx status never triggers fallback: the node's
\* frame ends, no frame is started for its fallback and no later node is
\* attempted.
C8_DecodeFailureEndsWalk ==
    \A k \in 1..Len(log) :
        DecodeFailed(log[k]) =>
            /\ k = Len(log)
            /\ Len(stack) < k
            /\ \A i \in 1..Len(stack) : stack[i].pc = "await"

\* C8 witness: the head of a longer chain got a 2xx body it could not decode
\* and the call ended with its fallback never attempted.
C8_Witness ==
    /\ Done
    /\ Len(log) = 1
    /\ DecodeFailed(log[1])
    /\ conn[1].Fallback # NoNode
    /\ retval.err = ParseError(1)

\* C9: when every node of the chain fails, the pair the call returns is decided
\* by the last node's failure alone: (400, its construction error),
\* (503, its transport error), or its real status code.
C9_LastFailureDecides ==
    (Done /\ \A i \in 1..Len(log) : Failed(log[i])) =>
        /\ Terminal(Last)
        /\ Last.outcome = "construct" => retval = Pair(400, ConstructError(Last.node))
        /\ Last.outcome = "transport" => retval = Pair(503, TransportError(Last.node))
        /\ Non2xx(Last) =>
              /\ resp.node = Last.node
              /\ retval.status = resp.status
              /\ retval.err \in {NoError, ParseError(Last.node)}

\* C9 witness: construction failure, then transport failure, then a 500.
C9_Witness ==
    /\ Done
    /\ Len(log) = 3
    /\ log[1].outcome = "construct"
    /\ log[2].outcome = "transport"
    /\ log[3].outcome = "non2xx"
    /\ retval.status = 500

\* C10 as stated: the request built for a fallback is made of the fallback
\* node's own fields, so it is the same whatever method, path, body and headers
\* the call that delegated to it was given.
C10_FallbackUsesOwnRequest ==
    \A i \in 2..Len(log) :
        log[i].req # NoReq =>
            \A a \in Args :
                ~CreateFails(conn[log[i].node], a) =>
                    CreateHTTPRequest(conn[log[i].node], a) = log[i].req

\* The director has run on the builder the caller holds.
Built == ~builder.isNil /\ steps # <<>>

\* C11 as stated: a builder made with returnsJSON = true and nil headers leaves,
\* after CreateConnection, a Connection whose headers are
\* {Content-Type: application/json}.
C11_DefaultContentType ==
    (Built /\ builder.returnsJSON /\ builder.headers.isNil) =>
        builder.Connection.Headers = DefaultHeaders

\* C12: a builder made with returnsJSON = true and explicit headers leaves a
\* Connection whose headers are exactly the explicit ones; a default
\* Content-Type that the explicit headers do not name is gone.
C12_ExplicitHeadersReplace ==
    (Built /\ builder.returnsJSON /\ ~builder.headers.isNil) =>
        /\ builder.Connection.Headers = builder.headers
        /\ \A h \in builder.Connection.Headers.kv : h \in builder.headers.kv

\* C12 witness: explicit headers without Content-Type on a JSON builder.
C12_Witness ==
    /\ Built
    /\ builder.returnsJSON
    /\ builder.headers = Headers({<<"Accept", "text/plain">>})
    /\ builder.Connection.Headers.kv = {<<"Accept", "text/plain">>}

\* C13 as stated: when the body cannot be serialized, CreateConnection reports
\* the failure to its caller and stops: no later builder method runs and the
\* caller is left with no Connection wired to a fallback.
C13_MarshalFailureAborts ==
    (Built /\ builder.body # NilBody /\ MarshalFails(builder.body)) =>
        /\ CreateConnectionResult(builder) # NoError
        /\ steps = <<"createConnection", "addHTTPPOSTBody">>
        /\ builder.Connection.Fallback = NoNode

\* The Connections a call on the head can reach, and their number.
RECURSIVE ReachFrom(_, _)
ReachFrom(n, seen) ==
    IF n = NoNode \/ n \in seen
    THEN seen
    ELSE ReachFrom(conn[n].Fallback, seen \cup {n})
ChainSize == Cardinality(ReachFrom(1, {}))

\* C15: on a finite acyclic chain of n Connections, a call on the head returns
\* (every transport call returning), having attempted at most n nodes with a
\* recursion at most n deep.
C15_TerminatesWithinChain ==
    /\ [](Len(log) <= ChainSize /\ Len(stack) <= ChainSize)
    /\ (~Idle) ~> Done

\* C15 witness: a call has returned after attempting all three nodes.
C15_Witness ==
    /\ Done
    /\ ChainSize = 3
    /\ Len(log) = 3

\* C16: there is no cycle guard: on a chain whose Fallback references form a
\* cycle, a call returns only if some node answered in the success range; while
\* every attempt fails, each failed node has called its Fallback and the nodes
\* of the cycle are attempted again.
C16_CycleNeverReturns ==
    (\A i \in 1..Len(log) : log[i].outcome # "2xx") =>
        /\ ~Done
        /\ \A i \in 1..Len(log) :
              Failed(log[i]) =>
                  /\ Len(stack) > i
                  /\ stack[i + 1].node = conn[log[i].node].Fallback
        /\ \A i \in 1..(Len(log) - 1) :
              log[i + 1].node = conn[log[i].node].Fallback

\* C16 witness: on a cycle of three nodes, all failing, the head is attempted
\* a second time in the same call.
C16_Witness ==
    /\ conn[3].Fallback = 1
    /\ Len(log) = 4
    /\ log[4].node = log[1].node
    /\ \A i \in 1..3 : Failed(log[i])
    /\ log[4].sent

\* C18: executing a chain changes no field of any Connection of the chain
\* (Name, Host, Output, CustomError, Fallback).
C18_ChainUnchanged == [][conn' = conn]_vars

\* C18 witness: a second call has run through a three-node chain and decoded
\* a body into a target.
C18_Witness ==
    /\ Done
    /\ calls = 2
    /\ Len(log) = 3
    /\ writes # <<>>

\* The running call repeats an earlier one.
Repeated == prev.log # <<>>

\* C19: no state is kept across calls: every call starts with the head node,
\* and a call that gets the answers an earlier call on the same chain got
\* attempts the same nodes in the same order and returns the same pair.
C19_NoStateAcrossCalls ==
    /\ log # <<>> => log[1].node = 1
    /\ Repeated =>
          /\ Len(log) <= Len(prev.log)
          /\ \A i \in 1..Len(log) : log[i].node = prev.log[i].node
          /\ Done => /\ Len(log) = Len(prev.log)
                     /\ retval = prev.retval

\* C19 witness: the head failed in the first call and again in the second,
\* which has returned what the first returned, from the third node.
C19_Witness ==
    /\ Repeated
    /\ Done
    /\ Len(log) = 3
    /\ Failed(log[1])
    /\ Failed(prev.log[1])
    /\ retval = prev.retval
    /\ retval.status = 299

\* The i-th attempt's failure has been reported.
Reported(i) == \E k \in 1..Len(events) : events[k] = log[i].node

\* C20: when a node that has a logger fails, an event naming it is emitted
\* before the node delegates to its Fallback or returns its terminal failure:
\* no Fallback's request is constructed or sent before that event.
C20_LoggedBeforeDelegation ==
    /\ \A i \in 1..Len(log) :
          (Failed(log[i]) /\ conn[log[i].node].Logger) => Reported(i)
    /\ \A i \in 1..(Len(log) - 1) :
          conn[log[i].node].Logger => Reported(i)

\* C20 witness: the head, which has a logger, failed; its event is out and
\* the request of its Fallback has been sent.
C20_Witness ==
    /\ conn[1].Logger
    /\ Len(log) = 2
    /\ Failed(log[1])
    /\ log[2].sent
    /\ log[2].outcome = "pending"
    /\ events = <<1>>

\* What goroutine t may leave in a field, and the targets of its Connection.
Own(t) == {Zero, Full(t), Partial(t)}
TargetsOf(t) == {conn[thr[t].node].Output, conn[thr[t].node].CustomError}
Running == \A t \in Threads : thr[t].node # NoNode
ReturnedSuccess(t) ==
    /\ thr[t].pc = "done"
    /\ IsSuccess(thr[t].ret.status)
    /\ thr[t].ret.err = NoError

\* C17: two concurrent executions that use distinct targets leave in each
\* target only what its own execution decoded, and an execution that returns
\* (2xx, no error) finds its own payload in its Output.  (With a shared target
\* the other execution's payload can be there instead: the witness.)
C17_DistinctTargetsIsolated ==
    (Running /\ TargetsOf(1) \cap TargetsOf(2) = {}) =>
        \A t \in Threads :
            /\ \A x \in TargetsOf(t) : mem[x][1] \in Own(t) /\ mem[x][2] \in Own(t)
            /\ ReturnedSuccess(t) =>
                  mem[conn[thr[t].node].Output] = <<Full(t), Full(t)>>

\* C17 witness: both goroutines execute the same Connection; the first has
\* returned (2xx, no error) and the shared Output holds the second's payload.
C17_Witness ==
    /\ Running
    /\ thr[1].node = thr[2].node
    /\ ReturnedSuccess(1)
    /\ mem[conn[thr[1].node].Output] = <<Full(2), Full(2)>>

\* The i-th attempt ended the walk: Success, a decode failure, or the failure
\* of a Connection without Fallback.
Ended(e) ==
    \/ e.outcome = "2xx"
    \/ Failed(e) /\ Terminal(e)

\* C21: in one call on an acyclic chain the nodes are attempted in chain order
\* from the head, each at most once; a node is attempted only after the node
\* before it failed (construction, transport, non-2xx status); nothing is
\* attempted after a node reached Success or a terminal error.
C21_AttemptsInChainOrder ==
    /\ log # <<>> => log[1].node = 1
    /\ \A i \in 1..(Len(log) - 1) :
          /\ log[i + 1].node = conn[log[i].node].Fallback
          /\ Failed(log[i])
          /\ ~Ended(log[i])
    /\ \A i, j \in 1..Len(log) : i # j => log[i].node # log[j].node
    /\ \A i \in 1..Len(log) :
          Ended(log[i]) => (i = Len(log) /\ Len(stack) < i)
    /\ Len(stack) <= Len(log) + 1
    /\ \A i \in 1..(Len(stack) - 1) : stack[i].pc = "await"

\* C21 witness: a status failure, a construction failure, then Success on the
\* third node.
C21_Witness ==
    /\ Done
    /\ Len(log) = 3
    /\ log[1].outcome = "non2xx"
    /\ log[2].outcome = "construct"
    /\ Succeeded(log[3])

\* The attempt of node n in this call.
AttemptOf(n) == log[CHOOSE i \in 1..Len(log) : log[i].node = n]

\* C22: a node that fails and delegates to its Fallback writes nothing: its
\* response is decoded into neither target, so the targets hold only what the
\* last attempted node wrote, or what they held before.
C22_DelegationWritesNothing ==
    /\ \A k \in 1..Len(writes) :
          /\ writes[k].node = Last.node
          /\ ~(Failed(AttemptOf(writes[k].node)) /\ ~Terminal(AttemptOf(writes[k].node)))
    /\ (\E i \in 1..Len(log) : Non2xx(log[i]) /\ ~Terminal(log[i])) =>
          /\ Len(writes) <= 1
          /\ calls = 1 =>
                \A t \in Targets :
                    \/ mem[t] = Zero
                    \/ writes = <<[node |-> Last.node, target |-> t,
                                   value |-> mem[t]]>>

\* C22 witness: the head answered outside the success range and delegated;
\* the second node answered 500, and only its body is in the CustomError the
\* two nodes share.
C22_Witness ==
    /\ Done
    /\ calls = 1
    /\ Len(log) = 2
    /\ log[1].outcome = "non2xx"
    /\ retval = Pair(500, NoError)
    /\ conn[1].CustomError = conn[2].CustomError
    /\ mem[conn[2].CustomError] = Full(2)
    /\ Len(writes) = 1

\* Where a builder method ran in the last CreateConnection: 0 if it did not.
Ran(step) == \E i \in 1..Len(steps) : steps[i] = step
Pos(step) == IF Ran(step) THEN CHOOSE i \in 1..Len(steps) : steps[i] = step ELSE 0
StepOrder ==
    <<"createConnection", "addHTTPPOSTBody", "addHTTPHeaders", "addPayloads",
      "addFallback">>

\* C23: CreateConnection runs the builder methods in the order create node,
\* attach body, attach headers, attach targets, attach fallback; the body
\* method runs only when a body was supplied and the fallback method only when
\* a fallback was supplied: no body gives a Connection without body, no
\* fallback a terminal Connection.
C23_BuilderStepOrder ==
    Built =>
        /\ \A i, j \in 1..Len(steps) : i # j => steps[i] # steps[j]
        /\ \A i, j \in 1..Len(StepOrder) :
              (i < j /\ Ran(StepOrder[i]) /\ Ran(StepOrder[j])) =>
                  Pos(StepOrder[i]) < Pos(StepOrder[j])
        /\ Ran("createConnection") /\ Ran("addHTTPHeaders") /\ Ran("addPayloads")
        /\ Ran("addHTTPPOSTBody") <=> builder.body # NilBody
        /\ Ran("addFallback") <=> builder.fallback # NoNode
        /\ builder.body = NilBody => builder.Connection.Body = NilBytes
        /\ builder.Connection.Fallback = builder.fallback
        /\ builder.Connection.Name = builder.name
        /\ builder.Connection.Method = builder.method
        /\ builder.Connection.Path = builder.path
        /\ builder.Connection.Output = builder.output
        /\ builder.Connection.CustomError = builder.customError

\* C23 witness: a builder given neither body nor fallback has been run: three
\* methods, no body, no Fallback.
C23_Witness ==
    /\ Built
    /\ builder.body = NilBody
    /\ builder.fallback = NoNode
    /\ Len(steps) = 3
    /\ builder.Connection.Body = NilBytes
    /\ builder.Connection.Fallback = NoNode
    /\ ~builder.Connection.isNil

\* The response the last attempt got is classified and still at hand.
Answered ==
    /\ log # <<>>
    /\ resp.node = Last.node
    /\ Last.outcome # "pending"

\* C24: the success range is [200,299], ends included: on 200 and 299 the body
\* is decoded into Output and no Fallback is called; on 199, 300 and every
\* other status outside the range the Fallback is called if there is one, and
\* otherwise the terminal handling applies (nothing goes into Output).
C24_InclusiveSuccessRange ==
    /\ \A k \in 1..Len(log) :
          log[k].outcome = "2xx" =>
              /\ k = Len(log)
              /\ Len(stack) < k
              /\ log[k].ret.status \in 200..299
              /\ log[k].payload \in {"ok", "type"} => Len(writes) = 1
              /\ \A w \in 1..Len(writes) :
                    writes[w].target = conn[log[k].node].Output
    /\ \A k \in 1..Len(log) :
          Non2xx(log[k]) =>
              IF Terminal(log[k])
              THEN /\ k = Len(log)
                   /\ \A w \in 1..Len(writes) :
                         writes[w].target = conn[log[k].node].CustomError
              ELSE Len(stack) > k \/ Len(log) > k
    /\ Answered =>
          /\ resp.status \in {200, 299} =>
                (Last.outcome = "2xx" /\ Last.ret.status = resp.status)
          /\ resp.status \in {199, 300} =>
                (Last.outcome = "non2xx" /\ Terminal(Last)
                 /\ Last.ret.status = resp.status)

\* C24 witness: the head answered outside the range and its Fallback was
\* called; the Fallback answered 200, which ended the walk in Success although
\* it has a Fallback of its own.
C24_Witness ==
    /\ Done
    /\ Len(log) = 2
    /\ log[1].outcome = "non2xx"
    /\ resp.status = 200
    /\ Succeeded(log[2])
    /\ conn[2].Fallback # NoNode
    /\ retval = Pair(200, NoError)

\* C25: a node without Fallback that receives 404 returns (404, no error) and
\* does not parse the body: nothing is written, CustomError is as it was,
\* whatever the body holds.
C25_NotFoundLeavesCustomError ==
    \A k \in 1..Len(log) :
        (log[k].outcome = "404" /\ Terminal(log[k])) =>
            /\ k = Len(log)
            /\ log[k].payload \in Payloads
            /\ log[k].ret = Pair(404, NoError)
            /\ writes = <<>>
            /\ calls = 1 => \A t \in Targets : mem[t] = Zero

\* C25 witness: a terminal node got 404 with a body that Decode would have
\* stored; the call returned (404, nil) and CustomError is still zero.
C25_Witness ==
    /\ Done
    /\ calls = 1
    /\ Last.outcome = "404"
    /\ Last.payload = "ok"
    /\ retval = Pair(404, NoError)
    /\ mem[conn[Last.node].CustomError] = Zero

\* Decode ran on the attempt's body and failed.
DecodeRanAndFailed(e) ==
    /\ e.outcome \in {"2xx", "non2xx"}
    /\ e.payload \in {"syntax", "type"}

\* C26: the error a top-level call returns is non-nil exactly when the last
\* attempted node ended in a construction failure, a transport failure or a
\* decode failure (of the success body or of the error body); a terminal
\* status outside the range does not by itself make it non-nil.
C26_ErrorIffLastNodeBroke ==
    Done =>
        /\ retval.err # NoError <=>
              \/ Last.outcome \in {"construct", "transport"}
              \/ DecodeRanAndFailed(Last)
        /\ (Non2xx(Last) /\ ~DecodeRanAndFailed(Last)) =>
              /\ retval.err = NoError
              /\ retval.status \notin 200..299
        /\ retval.err # NoError => retval.err.node = Last.node

\* C26 witness: after the head failed, its Fallback answered 200 with a body
\* that does not parse; the caller gets the decode error.
C26_Witness ==
    /\ Done
    /\ Len(log) = 2
    /\ Failed(log[1])
    /\ DecodeFailed(Last)
    /\ retval = Pair(200, ParseError(2))

\* In the first call, every target other than those in ts is as constructed.
FirstCallLeaves(ts) == calls = 1 => \A t \in Targets \ ts : mem[t] = Zero

\* C27: one call writes at most one target, and only the last attempted node
\* writes: a call ending in Success writes Output and no CustomError, a call
\* ending in a terminal status outside the range writes no Output, a call
\* ending in a construction or transport failure writes nothing.
C27_AtMostOneTargetWritten ==
    /\ Len(writes) <= 1
    /\ \A w \in 1..Len(writes) : writes[w].node = Last.node
    /\ Done =>
          /\ Succeeded(Last) =>
                /\ writes = <<[node |-> Last.node,
                               target |-> conn[Last.node].Output,
                               value |-> Full(Last.node)]>>
                /\ FirstCallLeaves({conn[Last.node].Output})
          /\ Non2xx(Last) =>
                /\ \A w \in 1..Len(writes) :
                      writes[w].target = conn[Last.node].CustomError
                /\ FirstCallLeaves({conn[Last.node].CustomError})
          /\ Last.outcome \in {"construct", "transport"} =>
                /\ writes = <<>>
                /\ FirstCallLeaves({})

\* C27 witness: a first call left node 2's error body in its CustomError; the
\* second call ended in Success on node 2, wrote its Output and left the
\* CustomError as it was.
C27_Witness ==
    /\ Done
    /\ calls = 2
    /\ Len(log) = 2
    /\ Succeeded(Last)
    /\ Len(writes) = 1
    /\ mem[conn[2].Output] = Full(2)
    /\ mem[conn[2].CustomError] = Full(2)

\* The target that matches a returned status, on the node that produced it.
MatchingTarget(statusCode) ==
    IF statusCode \in 200..299
    THEN conn[Last.node].Output
    ELSE conn[Last.node].CustomError
WrittenByLast(statusCode) ==
    /\ writes = <<[node |-> Last.node, target |-> MatchingTarget(statusCode),
                   value |-> Full(Last.node)]>>
    /\ mem[MatchingTarget(statusCode)] = Full(Last.node)
    /\ Last.payload = "ok"

\* C28 as stated: whenever a top-level call returns a nil error, the target
\* matching the returned status (Output in [200,299], CustomError otherwise)
\* was successfully written during the call by the node that produced the
\* status.
C28_NilErrorMeansWritten ==
    (Done /\ retval.err = NoError) => WrittenByLast(retval.status)

\* C28 amended: whenever a top-level call returns a nil error with a status
\* other than 404, the target matching the status was successfully written
\* during the call by the node that produced it; (404, nil) is returned with
\* nothing written.  (2xx, nil) is never returned when the 2xx body failed to
\* decode.
C28_NilErrorMeansWrittenUnless404 ==
    /\ (Done /\ retval.err = NoError) =>
          IF retval.status = 404
          THEN writes = <<>> /\ Last.outcome = "404"
          ELSE WrittenByLast(retval.status)
    /\ (Done /\ DecodeFailed(Last)) =>
          ~(retval.status \in 200..299 /\ retval.err = NoError)

\* C28 witness: the third node answered 500 with a decodable body; the call
\* returned (500, nil) from the head and the body is in the node's CustomError.
C28_Witness ==
    /\ Done
    /\ Len(log) = 3
    /\ retval = Pair(500, NoError)
    /\ log[1].ret = Pair(500, NoError)
    /\ mem[conn[3].CustomError] = Full(3)
    /\ Len(writes) = 1

====
